---- MODULE Spec2Model ----
(***************************************************************************)
(* Model of scripts/run_llm_trials.py: trial discovery, provider adapters, *)
(* the trial runner, the report writer and main.                           *)
(*                                                                         *)
(* Text.  A Python str is modelled as a sequence of atoms.  An atom is one *)
(* whitespace character (SP, NL, CR), one special character (BAR, BSL) or  *)
(* a chunk of ordinary characters that holds no whitespace, no bar and no  *)
(* backslash (a word, or a fixed literal of the program written with its   *)
(* inner blanks, e.g. "## Run <timestamp>").  Two texts are byte-identical *)
(* iff their atom sequences are equal.                                     *)
(*                                                                         *)
(* Optional values.  Python's None is the empty sequence << >> and a       *)
(* present value v is the one-element sequence << v >>.                    *)
(***************************************************************************)
EXTENDS Integers, Sequences, FiniteSets, TLC

VARIABLES
    pc,          \* control location of the modelled procedure
    cfg,         \* main: config mapping  model key -> entry
    argModels,   \* main: --models argument (set of keys, {} when not given)
    runners,     \* main: runners built by build_runners (key -> adapter)
    order,       \* main: sorted(selected_models)
    mIdx,        \* main: index in order of the model being run
    metaFiles,   \* file system: path -> Metadata.json (+ images) found under trials_root
    cap,         \* max_trials (None or an integer)
    trials,      \* list of TrialAssets returned by discover_trials
    tIdx,        \* run_trials: index of the trial the loop is at
    results,     \* run_trials: results accumulated for the current model
    fed,         \* what the provider answered for each element of results
    runs,        \* main: list of ModelRun
    calls,       \* number of provider calls made so far
    file0,       \* report artifact when the program started
    file,        \* report artifact: None (absent) or its content
    prev,        \* content of the report artifact before the last append_report
    nAppends,    \* number of append_report invocations so far
    rows,        \* cells of the table rows written by the last append_report
    adapter0,    \* adapter spec: the runner object as constructed
    adapter,     \* adapter spec: the runner object (its attributes)
    lastInv,     \* adapter spec: record of the last runner invocation
    nInv         \* adapter spec: number of invocations so far

mainVars == << cfg, argModels, runners, order, mIdx >>
dataVars == << metaFiles, cap, trials >>
runVars == << tIdx, results, fed, runs, calls >>
fileVars == << file0, file, prev, nAppends, rows >>
adapterVars == << adapter0, adapter, lastInv, nInv >>
vars == << pc, mainVars, dataVars, runVars, fileVars, adapterVars >>

----------------------------------------------------------------------------
(* Bounds                                                                  *)
MaxFiles == 3        \* Metadata.json files under trials_root (discovery)
MaxCap == 4          \* largest max_trials tried
MainFiles == 2       \* Metadata.json files under trials_root (main, run)
MaxAppends == 2      \* append_report invocations on one path
MaxInvocations == 3  \* runner invocations on one adapter

----------------------------------------------------------------------------
(* Optional values and text                                                *)
None == << >>
Some(v) == << v >>
IsNone(o) == o = << >>
Val(o) == o[1]

SP == " "
NL == "\n"
CR == "\r"
BAR == "|"
BSL == "\\"
WS == {SP, NL, CR}

Min(a, b) == IF a <= b THEN a ELSE b
Max(a, b) == IF a >= b THEN a ELSE b

IsPrefix(s, t) == Len(s) <= Len(t) /\ SubSeq(t, 1, Len(s)) = s

\* the positions of s that hold no whitespace
NonBlank(s) == { i \in 1..Len(s) : s[i] \notin WS }
FirstOf(S) == CHOOSE x \in S : \A y \in S : x <= y
LastOf(S) == CHOOSE x \in S : \A y \in S : x >= y

\* str.lstrip()
LStrip(s) == IF NonBlank(s) = {} THEN << >> ELSE SubSeq(s, FirstOf(NonBlank(s)), Len(s))

\* str.rstrip()
RStrip(s) == IF NonBlank(s) = {} THEN << >> ELSE SubSeq(s, 1, LastOf(NonBlank(s)))

\* str.strip()
Strip(s) == LStrip(RStrip(s))

\* the first whitespace-free run of s (s does not start with whitespace)
RECURSIVE FirstWord(_)
FirstWord(s) ==
    IF s = << >> \/ Head(s) \in WS THEN << >> ELSE << Head(s) >> \o FirstWord(Tail(s))

\* " ".join(s.split())
RECURSIVE CollapseWS(_)
CollapseWS(s) ==
    LET t == LStrip(s) IN
    IF t = << >> THEN << >>
    ELSE LET w == FirstWord(t)
             rest == LStrip(SubSeq(t, Len(w) + 1, Len(t)))
         IN IF rest = << >> THEN w ELSE w \o << SP >> \o CollapseWS(rest)

\* s.replace("|", "\\|")
RECURSIVE EscapeBars(_)
EscapeBars(s) ==
    IF s = << >> THEN << >>
    ELSE (IF Head(s) = BAR THEN << BSL, BAR >> ELSE << Head(s) >>) \o EscapeBars(Tail(s))

\* sep.join(parts)
RECURSIVE Join(_, _)
Join(parts, sep) ==
    IF parts = << >> THEN << >>
    ELSE IF Len(parts) = 1 THEN parts[1]
    ELSE parts[1] \o sep \o Join(Tail(parts), sep)

\* text-mode read with newline=None: "\r\n" and a lone "\r" are read as "\n"
UniversalNewlines(s) ==
    LET positions == [i \in 1..Len(s) |-> i]
        kept == SelectSeq(positions, LAMBDA i : ~(s[i] = NL /\ i > 1 /\ s[i - 1] = CR))
    IN [k \in 1..Len(kept) |-> IF s[kept[k]] = CR THEN NL ELSE s[kept[k]]]

\* str.upper() on the letters used here
UpperAtom(c) ==
    CASE c = "a" -> "A" [] c = "b" -> "B" [] c = "c" -> "C" [] c = "d" -> "D"
      [] OTHER -> c
Upper(s) == [i \in 1..Len(s) |-> UpperAtom(s[i])]

Letters == { << "A" >>, << "B" >>, << "C" >> }

----------------------------------------------------------------------------
(* Trial discovery                                                         *)
(*                                                                         *)
(* A trial directory is a path p (a number; the sorted walk visits paths   *)
(* in increasing order) holding one Metadata.json and the image files.     *)
(* A metadata file is the record                                           *)
(*   loadable : json.load succeeds                                         *)
(*   shape, complexity, magnitude : config values, None when missing       *)
(*   targets  : list of [id (None for null), is_correct]                   *)
(*   images   : the five image files exist                                 *)

Target(id, flag) == [id |-> id, is_correct |-> flag]

Meta(shape, targets, images) ==
    [loadable |-> TRUE, shape |-> shape, complexity |-> Some(<< "low" >>),
     magnitude |-> None, targets |-> targets, images |-> images]

MetaOkA ==
    Meta(Some(<< "cube" >>),
         << Target(Some(<< "A" >>), TRUE), Target(Some(<< "B" >>), FALSE),
            Target(Some(<< "C" >>), FALSE) >>, TRUE)
MetaOkLowerB ==
    Meta(Some(<< "cube" >>),
         << Target(Some(<< "a" >>), FALSE), Target(Some(<< "b" >>), TRUE),
            Target(Some(<< "c" >>), FALSE) >>, TRUE)
MetaOkCrShape ==
    Meta(Some(<< "x", CR, "y" >>),
         << Target(Some(<< "a" >>), FALSE), Target(Some(<< "b" >>), FALSE),
            Target(Some(<< "c" >>), TRUE) >>, TRUE)
MetaNoneFlagged ==
    Meta(None,
         << Target(Some(<< "a" >>), FALSE), Target(Some(<< "b" >>), FALSE),
            Target(Some(<< "c" >>), FALSE) >>, TRUE)
MetaTwoFlagged ==
    Meta(Some(<< "cube" >>),
         << Target(Some(<< "a" >>), TRUE), Target(Some(<< "b" >>), TRUE),
            Target(Some(<< "c" >>), FALSE) >>, TRUE)
MetaFlaggedD ==
    Meta(Some(<< "cube" >>),
         << Target(Some(<< "a" >>), FALSE), Target(Some(<< "b" >>), FALSE),
            Target(Some(<< "d" >>), TRUE) >>, TRUE)
MetaFlaggedNullId ==
    Meta(Some(<< "cube" >>),
         << Target(None, TRUE), Target(Some(<< "b" >>), FALSE),
            Target(Some(<< "c" >>), FALSE) >>, TRUE)
MetaMissingImage ==
    Meta(Some(<< "cube" >>),
         << Target(Some(<< "A" >>), TRUE), Target(Some(<< "B" >>), FALSE),
            Target(Some(<< "C" >>), FALSE) >>, FALSE)
MetaMalformed ==
    [loadable |-> FALSE, shape |-> None, complexity |-> None, magnitude |-> None,
     targets |-> << >>, images |-> TRUE]

MetaKinds ==
    { MetaOkA, MetaOkLowerB, MetaOkCrShape, MetaNoneFlagged, MetaTwoFlagged,
      MetaFlaggedD, MetaFlaggedNullId, MetaMissingImage, MetaMalformed }

\* the metadata files main is run on
MainMetaKinds == { MetaOkLowerB, MetaNoneFlagged }

\* file systems: a Metadata.json in some of the directories 1..n
FileSystems(n, kinds) == UNION { [S -> kinds] : S \in SUBSET (1..n) }

\* sorted(trials_root.rglob("Metadata.json"))
RECURSIVE SortedPaths(_)
SortedPaths(S) ==
    IF S = {} THEN << >>
    ELSE LET m == CHOOSE x \in S : \A y \in S : x <= y
         IN << m >> \o SortedPaths(S \ {m})

\* config.get(key, '?')
OrQuestion(o) == IF IsNone(o) THEN << "?" >> ELSE Val(o)

\* f"{shape} | {complexity} | {magnitude}"
ConditionOf(meta) ==
    OrQuestion(meta.shape) \o << SP, BAR, SP >> \o OrQuestion(meta.complexity)
        \o << SP, BAR, SP >> \o OrQuestion(meta.magnitude)

\* next((t["id"] for t in targets if t.get("is_correct")), None)
RECURSIVE FirstFlaggedId(_)
FirstFlaggedId(targets) ==
    IF targets = << >> THEN None
    ELSE IF Head(targets).is_correct THEN Head(targets).id
    ELSE FirstFlaggedId(Tail(targets))

\* str(trial_dir.relative_to(trials_root))
LabelOf(p) == << ToString(p) >>

\* the TrialAssets built for the metadata file in directory p; the five image
\* payloads are those of directory p
TrialAssets(p, meta) ==
    [label |-> LabelOf(p), condition |-> ConditionOf(meta),
     correct_answer |-> Upper(Val(FirstFlaggedId(meta.targets))),
     images |-> p]

\* one pass of the loop body raises
MetaRaises(meta) ==
    \/ ~meta.loadable
    \/ IsNone(FirstFlaggedId(meta.targets))
    \/ ~meta.images

\* max_trials is not None and len(trials) >= max_trials
CapReached(maxTrials, n) == ~IsNone(maxTrials) /\ n >= Val(maxTrials)

\* the loop of discover_trials over the paths still to visit, with the trials
\* collected so far; the result is [raised, trials]
RECURSIVE DiscoverLoop(_, _, _, _)
DiscoverLoop(fs, todo, maxTrials, acc) ==
    IF todo = << >> THEN [raised |-> FALSE, trials |-> acc]
    ELSE LET p == Head(todo)
             meta == fs[p]
         IN IF MetaRaises(meta) THEN [raised |-> TRUE, trials |-> << >>]
            ELSE LET acc2 == Append(acc, TrialAssets(p, meta))
                 IN IF CapReached(maxTrials, Len(acc2))
                    THEN [raised |-> FALSE, trials |-> acc2]
                    ELSE DiscoverLoop(fs, Tail(todo), maxTrials, acc2)

discover_trials(fs, maxTrials) ==
    DiscoverLoop(fs, SortedPaths(DOMAIN fs), maxTrials, << >>)

Caps == { None } \cup { Some(n) : n \in 0..MaxCap }

----------------------------------------------------------------------------
(* Model replies and the answer normalizer                                 *)
(*                                                                         *)
(* The text a provider returns is modelled by what parsing makes of it:    *)
(*   kind "empty"   no text at all (None or "")                            *)
(*   kind "nonjson" text that json.loads rejects                           *)
(*   kind "array"   valid JSON that is not an object                       *)
(*   kind "object"  a JSON object with the values of its three keys:       *)
(*       answer, reasoning : None when the key is missing, else the text   *)
(*       confidence : [kind, v], kind "none" (missing), "num" (a number    *)
(*       or numeric string of value v), "bad" (not convertible) or "huge"  *)
(*       (an integer too large to convert to float)                        *)

NoConf == [kind |-> "none", v |-> 0]
Num(v) == [kind |-> "num", v |-> v]
BadConf == [kind |-> "bad", v |-> 0]
HugeConf == [kind |-> "huge", v |-> 0]

Reply(kind, answer, confidence, reasoning) ==
    [kind |-> kind, answer |-> answer, confidence |-> confidence,
     reasoning |-> reasoning]
EmptyReply == Reply("empty", None, NoConf, None)
NonJsonReply == Reply("nonjson", None, NoConf, None)
ArrayReply == Reply("array", None, NoConf, None)
ObjectReply(answer, confidence, reasoning) ==
    Reply("object", answer, confidence, reasoning)

\* str(exc) of the failures raised while handling a reply
JsonDecodeErrorText == << "Expecting", SP, "value:", SP, "line", SP, "1" >>
AttributeErrorText == << "object", SP, "has", SP, "no", SP, "attribute", SP, "'get'" >>
OverflowErrorText == << "int", SP, "too", SP, "large", SP, "to", SP, "convert" >>
GeminiEmptyText == << "Gemini", SP, "returned", SP, "empty", SP, "text" >>

\* parse_json_response(text): [raised, err, value], value the reply when it parses
parse_json_response(reply) ==
    IF reply.kind \in {"empty", "nonjson"}
    THEN [raised |-> TRUE, err |-> JsonDecodeErrorText, value |-> reply]
    ELSE [raised |-> FALSE, err |-> << >>, value |-> reply]

normalize_answerMutant(val) == IF IsNone(val) THEN None ELSE Some(Upper(Strip(Val(val))))
\* normalize_answer(val): None, or the stripped upper-cased text when it is A, B or C
normalize_answer(val) ==
    IF IsNone(val) THEN None
    ELSE LET ans == Upper(Strip(Val(val)))
         IN IF ans \in Letters THEN Some(ans) ELSE None

\* normalize_confidence(val): [raised, value]; float(val) raises OverflowError,
\* which the except clause (TypeError, ValueError) does not catch, for a huge integer
normalize_confidence(val) ==
    CASE val.kind = "none" -> [raised |-> FALSE, value |-> None]
      [] val.kind = "bad" -> [raised |-> FALSE, value |-> None]
      [] val.kind = "huge" -> [raised |-> TRUE, value |-> None]
      [] OTHER -> [raised |-> FALSE, value |-> Some(Max(0, Min(100, val.v)))]

----------------------------------------------------------------------------
(* Provider adapters                                                       *)
(*                                                                         *)
(* A runner object is [kind, model_id, temperature, timeout, json_mode].   *)
(* The provider is the environment: to each request it answers with a      *)
(* response [exc, reply]: exc is None and reply the returned text, or exc  *)
(* names the exception the client raised.                                  *)

Runner(kind, modelId, temperature, timeout, jsonMode) ==
    [kind |-> kind, model_id |-> modelId, temperature |-> temperature,
     timeout |-> timeout, json_mode |-> jsonMode]

Exceptions == {"reject_format", "timeout", "network", "auth", "rate_limit", "no_message"}

\* str(exc)
ExceptionText(e) ==
    CASE e = "reject_format" -> << "response_format", SP, "is", SP, "not", SP, "supported" >>
      [] e = "timeout" -> << "Request", SP, "timed", SP, "out." >>
      [] e = "network" -> << "Connection", SP, "error." >>
      [] e = "auth" -> << "Incorrect", SP, "API", SP, "key" >>
      [] e = "rate_limit" -> << "Rate", SP, "limit", SP, "reached" >>
      [] OTHER -> << >>

Raise(e) == [exc |-> Some(e), reply |-> EmptyReply]
Text(reply) == [exc |-> None, reply |-> reply]

\* build_openai_content(trial): the labelled parts of the user message
build_openai_content(trial) ==
    << [type |-> "text", data |-> "Reference Object - View 1 (Front):"],
       [type |-> "image_url", data |-> << trial.images, "1_Reference_Front.jpg" >>],
       [type |-> "text", data |-> "Reference Object - View 2 (Back - 180 degrees):"],
       [type |-> "image_url", data |-> << trial.images, "2_Reference_Back.jpg" >>],
       [type |-> "text", data |-> "--- CANDIDATES ---"],
       [type |-> "text", data |-> "Candidate A:"],
       [type |-> "image_url", data |-> << trial.images, "3_Target_A.jpg" >>],
       [type |-> "text", data |-> "Candidate B:"],
       [type |-> "image_url", data |-> << trial.images, "3_Target_B.jpg" >>],
       [type |-> "text", data |-> "Candidate C:"],
       [type |-> "image_url", data |-> << trial.images, "3_Target_C.jpg" >>],
       [type |-> "text", data |-> "USER_INSTRUCTION"] >>

\* the params of chat.completions.create
OpenAIRequest(self, trial, structured) ==
    [model |-> self.model_id, system |-> "SYSTEM_PROMPT",
     content |-> build_openai_content(trial), temperature |-> self.temperature,
     timeout |-> self.timeout, response_format |-> structured]

\* the arguments of generate_content (the parts are the same labelled sequence,
\* with raw bytes; the system instruction is part of the model object)
GeminiRequest(self, trial) ==
    [model |-> self.model_id, system |-> "SYSTEM_PROMPT",
     content |-> build_openai_content(trial), temperature |-> self.temperature,
     timeout |-> self.timeout, response_format |-> TRUE]

\* the first request an invocation sends
FirstRequest(self, trial) ==
    IF self.kind = "openai" THEN OpenAIRequest(self, trial, self.json_mode)
    ELSE GeminiRequest(self, trial)

\* the provider can reject the structured mode only of a request that asks for it
Answers(response, request) ==
    response.exc = Some("reject_format") => request.response_format

\* except Exception: if self.json_mode: (retry)
Retries(self, first) == ~IsNone(first.exc) /\ self.json_mode

\* the outcome of the part of a runner's __call__ that follows the provider's
\* last response
AfterResponse(self, response, requests) ==
    IF ~IsNone(response.exc)
    THEN [raised |-> TRUE, err |-> ExceptionText(Val(response.exc)),
          value |-> EmptyReply, requests |-> requests]
    ELSE IF self.kind = "gemini" /\ response.reply.kind = "empty"
    THEN [raised |-> TRUE, err |-> GeminiEmptyText, value |-> EmptyReply,
          requests |-> requests]
    ELSE LET parsed == parse_json_response(response.reply)
         IN [raised |-> parsed.raised, err |-> parsed.err, value |-> parsed.value,
             requests |-> requests]

\* OpenAIStyleRunner.__call__ when the provider answers `first` to the first
\* request and `second` to the retry
OpenAICall(self, trial, first, second) ==
    LET req1 == OpenAIRequest(self, trial, self.json_mode)
    IN IF Retries(self, first)
       THEN AfterResponse(self, second, << req1, OpenAIRequest(self, trial, FALSE) >>)
       ELSE AfterResponse(self, first, << req1 >>)

\* GeminiRunner.__call__
GeminiCall(self, trial, first) ==
    AfterResponse(self, first, << GeminiRequest(self, trial) >>)

\* runner(trial)
RunnerCall(self, trial, first, second) ==
    IF self.kind = "openai" THEN OpenAICall(self, trial, first, second)
    ELSE GeminiCall(self, trial, first)

SelfAfterCallMutant(self, first) ==
    IF self.kind = "openai" /\ Retries(self, first)
    THEN [self EXCEPT !.json_mode = FALSE] ELSE self
\* the runner object after __call__: the fallback pops response_format from the
\* local params only, no attribute of self is assigned
SelfAfterCall(self, first) == self

----------------------------------------------------------------------------
(* Trial runner                                                            *)

TrialResult(trial, prediction, confidence, reasoning, success, error) ==
    [trial_label |-> trial.label, condition |-> trial.condition,
     gold |-> trial.correct_answer, prediction |-> prediction,
     confidence |-> confidence, reasoning |-> reasoning, success |-> success,
     error |-> error]

\* TrialResult.is_correct
is_correct(res) == res.success /\ res.prediction = Some(res.gold)

\* the except branch of run_trials
FailedResult(trial, err) == TrialResult(trial, None, None, << >>, FALSE, Some(err))

\* the body of the loop of run_trials, given what runner(trial) did
\* (latency_ms is written to no output and is left out)
TrialStep(trial, called) ==
    IF called.raised THEN FailedResult(trial, called.err)
    ELSE IF called.value.kind # "object" THEN FailedResult(trial, AttributeErrorText)
    ELSE LET answer == normalize_answer(called.value.answer)
             conf == normalize_confidence(called.value.confidence)
             reasoning == IF IsNone(called.value.reasoning) THEN << >>
                          ELSE Strip(Val(called.value.reasoning))
         IN IF conf.raised THEN FailedResult(trial, OverflowErrorText)
            ELSE TrialResult(trial, answer, conf.value, reasoning,
                             answer \in { Some(l) : l \in Letters }, None)

NextTrialMutant(i, res, n) == IF ~IsNone(res.error) THEN n + 1 ELSE i + 1
\* for trial in trials: the loop goes on to the next trial whatever the result
NextTrial(i, res, n) == i + 1

ModelRun(name, runner, res) == [name |-> name, model_id |-> runner.model_id, results |-> res]

----------------------------------------------------------------------------
(* Report                                                                  *)

\* round(10 * num / den), ties to even: the tenths that "{:.1f}" and "{:.1%}" print
Tenths(num, den) ==
    LET q == (20 * num + den) \div (2 * den)
    IN IF (20 * num + den) % (2 * den) = 0 /\ q % 2 = 1 THEN q - 1 ELSE q

\* f"{x:.1f}" of the number whose tenths are t
Fixed1(t) == << ToString(t \div 10), ".", ToString(t % 10) >>

RECURSIVE CountCorrect(_)
CountCorrect(res) ==
    IF res = << >> THEN 0
    ELSE (IF is_correct(Head(res)) THEN 1 ELSE 0) + CountCorrect(Tail(res))

\* the confidence values that are not None, [sum, count]
RECURSIVE ConfidenceSum(_)
ConfidenceSum(res) ==
    IF res = << >> THEN [sum |-> 0, count |-> 0]
    ELSE LET rest == ConfidenceSum(Tail(res))
         IN IF IsNone(Head(res).confidence) THEN rest
            ELSE [sum |-> rest.sum + Val(Head(res).confidence), count |-> rest.count + 1]

\* a value that is None or empty is falsy
Truthy(o) == ~IsNone(o) /\ Val(o) # << >>

RowStatusMutant(res) == IF is_correct(res) THEN "OK" ELSE IF IsNone(res.error) THEN "WRONG" ELSE "ERROR"
\* status = "OK" if res.is_correct else ("WRONG" if res.success else "ERROR")
RowStatus(res) == IF is_correct(res) THEN "OK" ELSE IF res.success THEN "WRONG" ELSE "ERROR"

\* note = res.error or res.reasoning, whitespace collapsed, bars escaped
RowNote(res) ==
    EscapeBars(CollapseWS(IF Truthy(res.error) THEN Val(res.error) ELSE res.reasoning))

\* the cells of the table row of one result
RowCells(res) ==
    [trial |-> res.trial_label, condition |-> res.condition, gold |-> res.gold,
     pred |-> IF Truthy(res.prediction) THEN Val(res.prediction) ELSE << "-" >>,
     conf |-> IF IsNone(res.confidence) THEN << "-" >>
              ELSE Fixed1(10 * Val(res.confidence)),
     status |-> << RowStatus(res) >>, note |-> RowNote(res)]

RowLine(c) ==
    << BAR, SP >> \o c.trial \o << SP, BAR, SP >> \o c.condition \o << SP, BAR, SP >>
        \o c.gold \o << SP, BAR, SP >> \o c.pred \o << SP, BAR, SP >> \o c.conf
        \o << SP, BAR, SP >> \o c.status \o << SP, BAR, SP >> \o c.note \o << SP, BAR >>

\* the lines append_report adds for one ModelRun
RunSection(run) ==
    LET total == Len(run.results)
        correct == CountCorrect(run.results)
        conf == ConfidenceSum(run.results)
    IN << << "###", SP, run.name, SP, "(" >> \o run.model_id \o << ")" >>,
          << "- Accuracy:", SP, ToString(correct), "/", ToString(total), SP, "(" >>
              \o Fixed1(IF total = 0 THEN 0 ELSE Tenths(100 * correct, total))
              \o << "%)" >> >>
       \o (IF conf.count = 0 THEN << >>
           ELSE << << "- Avg confidence (where provided):", SP >>
                       \o Fixed1(Tenths(conf.sum, conf.count)) >>)
       \o << << >>,
             << "| Trial | Condition | Gold | Pred | Conf | Status | Notes |" >>,
             << "| --- | --- | --- | --- | --- | --- | --- |" >> >>
       \o [j \in 1..total |-> RowLine(RowCells(run.results[j]))]
       \o << << >> >>

RECURSIVE RunSections(_)
RunSections(rs) ==
    IF rs = << >> THEN << >> ELSE RunSection(Head(rs)) \o RunSections(Tail(rs))

ReportHeader ==
    << "# LLM Trait Testing Results", NL, NL,
       "This file is auto-appended by scripts/run_llm_trials.py.", NL, NL >>

\* existing: the content read in text mode and right-stripped, or the header
ExistingText(f) ==
    IF IsNone(f) THEN ReportHeader ELSE RStrip(UniversalNewlines(Val(f)))

\* append_report: the content written to report_path, `f` being the artifact
\* before the call (None when the path does not exist)
append_report(f, rs, trialsRoot, promptNote) ==
    LET sections ==
            << ExistingText(f), << "## Run <timestamp>" >>,
               << "- Trials root:", SP >> \o trialsRoot,
               << "- Prompt:", SP >> \o promptNote, << >> >>
            \o RunSections(rs)
    IN Strip(Join(sections, << NL >>)) \o << NL >>

\* the cells written, one list per ModelRun
ReportRows(rs) ==
    [i \in 1..Len(rs) |-> [j \in 1..Len(rs[i].results) |-> RowCells(rs[i].results[j])]]

TrialsRoot == << "Trials" >>
PromptNote == << "Mental rotation prompt (system + JSON answer/confidence/reasoning)" >>

----------------------------------------------------------------------------
(* Configuration and build_runners                                         *)

Entry(provider, model, apiKey, jsonMode) ==
    [provider |-> provider, model |-> model, api_key |-> apiKey, json_mode |-> jsonMode]

EntryOpenAI == Entry(Some("openai"), Some(<< "gpt-5.2" >>), Some("key"), None)
EntryOpenAIPlain == Entry(Some("OpenAI"), Some(<< "qwen-vl" >>), Some("key"), Some(FALSE))
EntryGemini == Entry(Some("Gemini"), Some(<< "gemini-pro" >>), Some("key"), None)
EntryNoKey == Entry(Some("openai"), Some(<< "gpt-5.2" >>), None, None)
EntryUnsupported == Entry(Some("claude"), Some(<< "x" >>), Some("key"), None)

\* provider.lower()
Lower(p) == CASE p = "OpenAI" -> "openai" [] p = "Gemini" -> "gemini" [] OTHER -> p

\* timeout = int(cfg.get("timeout_seconds", 120))
DefaultTimeout == 120
\* temperature = float(cfg.get("temperature", 0.2))
DefaultTemperature == "0.2"

\* an entry for which build_runners raises ValueError
EntryRaises(e) ==
    \/ IsNone(e.api_key) \/ IsNone(e.model) \/ IsNone(e.provider)
    \/ Lower(Val(e.provider)) \notin {"openai", "gemini"}

\* the runner built for an entry (json_mode defaults to True)
RunnerOf(e) ==
    IF Lower(Val(e.provider)) = "openai"
    THEN Runner("openai", Val(e.model), DefaultTemperature, DefaultTimeout,
                IF IsNone(e.json_mode) THEN TRUE ELSE Val(e.json_mode))
    ELSE Runner("gemini", Val(e.model), DefaultTemperature, DefaultTimeout, FALSE)

\* build_runners(config): [raised, runners]
build_runners(config) ==
    IF \E k \in DOMAIN config : EntryRaises(config[k])
    THEN [raised |-> TRUE, runners |-> << >>]
    ELSE [raised |-> FALSE, runners |-> [k \in DOMAIN config |-> RunnerOf(config[k])]]

ConfigKeys == {"gemini", "gpt"}
ArgKeys == {"gemini", "gpt", "qwen"}
MainEntries == { EntryOpenAI, EntryGemini, EntryNoKey, EntryUnsupported }
Configs == UNION { [S -> MainEntries] : S \in SUBSET ConfigKeys }

\* the order of str on the keys used here
KeyRank(k) == CASE k = "gemini" -> 1 [] k = "gpt" -> 2 [] OTHER -> 3

\* sorted(selected_models)
RECURSIVE SortedKeys(_)
SortedKeys(S) ==
    IF S = {} THEN << >>
    ELSE LET m == CHOOSE x \in S : \A y \in S : KeyRank(x) <= KeyRank(y)
         IN << m >> \o SortedKeys(S \ {m})

\* selected_models
Selected(args, config) == IF args # {} THEN args ELSE DOMAIN config

MissingModelsMutant(selected, built) == {}
\* missing = selected_models - set(runners.keys())
MissingModels(selected, built) == selected \ DOMAIN built

----------------------------------------------------------------------------
(* What the provider does in one trial: its response to the first request  *)
(* and its response to the retry (read only when a retry is sent)          *)

Outcome(first, second) == [first |-> first, second |-> second]

GoodReply == ObjectReply(Some(<< SP, "b", NL >>), Num(87), Some(<< "ok" >>))

\* the five outcomes of a trial, for main
MainOutcomes ==
    { Outcome(Raise("timeout"), Raise("timeout")) }
        \cup { Outcome(Text(r), Text(r)) :
                 r \in { EmptyReply, NonJsonReply, ArrayReply, GoodReply } }

RunAnswers == { None, Some(<< SP, "b", NL >>), Some(<< "A" >>), Some(<< "D" >>) }
RunConfidences == { NoConf, Num(150), BadConf, HugeConf }
RunReasonings == { None, Some(<< SP, "left", SP, SP, BAR, NL, "arm", SP >>) }
RunReplies ==
    { EmptyReply, NonJsonReply, ArrayReply }
        \cup { ObjectReply(a, c, r) : a \in RunAnswers, c \in RunConfidences,
                                      r \in RunReasonings }
RunOutcomes ==
    { Outcome(Text(r), Text(r)) : r \in RunReplies }
        \cup { Outcome(Raise(e), s) : e \in {"timeout", "no_message", "reject_format"},
                                      s \in { Raise("auth"), Text(GoodReply) } }

AdapterResponses ==
    { Raise(e) : e \in Exceptions } \cup { Text(r) : r \in { NonJsonReply, GoodReply } }

----------------------------------------------------------------------------
(* main                                                                    *)

IdleMain == cfg = << >> /\ argModels = {} /\ runners = << >> /\ order = << >> /\ mIdx = 0
IdleData == metaFiles = << >> /\ cap = None /\ trials = << >>
IdleRun == tIdx = 0 /\ results = << >> /\ fed = << >> /\ runs = << >> /\ calls = 0
IdleFile == file0 = None /\ file = None /\ prev = None /\ nAppends = 0 /\ rows = << >>
IdleAdapter == adapter0 = << >> /\ adapter = << >> /\ lastInv = << >> /\ nInv = 0

FatalPcs ==
    { "fatal_config", "fatal_missing", "fatal_discovery", "fatal_no_trials", "fatal_key" }

\* runners = build_runners(cfg, ...) returns
BuildOk ==
    /\ pc = "build"
    /\ ~build_runners(cfg).raised
    /\ runners' = build_runners(cfg).runners
    /\ pc' = "select"
    /\ UNCHANGED << cfg, argModels, order, mIdx, dataVars, runVars, fileVars, adapterVars >>

\* build_runners raises ValueError
BuildFatal ==
    /\ pc = "build"
    /\ build_runners(cfg).raised
    /\ pc' = "fatal_config"
    /\ UNCHANGED << mainVars, dataVars, runVars, fileVars, adapterVars >>

\* no requested model is missing
SelectOk ==
    /\ pc = "select"
    /\ MissingModels(Selected(argModels, cfg), runners) = {}
    /\ order' = SortedKeys(Selected(argModels, cfg))
    /\ pc' = "discover"
    /\ UNCHANGED << cfg, argModels, runners, mIdx, dataVars, runVars, fileVars, adapterVars >>

\* raise ValueError(f"Requested models {missing} not found in config.")
SelectFatal ==
    /\ pc = "select"
    /\ MissingModels(Selected(argModels, cfg), runners) # {}
    /\ pc' = "fatal_missing"
    /\ UNCHANGED << mainVars, dataVars, runVars, fileVars, adapterVars >>

\* trials = discover_trials(trials_root, max_trials=max_trials), not empty
DiscoverOk ==
    /\ pc = "discover"
    /\ LET d == discover_trials(metaFiles, cap)
       IN /\ ~d.raised
          /\ d.trials # << >>
          /\ trials' = d.trials
    /\ mIdx' = 1
    /\ pc' = "run"
    /\ UNCHANGED << cfg, argModels, runners, order, metaFiles, cap, runVars, fileVars,
                    adapterVars >>

\* discover_trials raises
DiscoverFatal ==
    /\ pc = "discover"
    /\ discover_trials(metaFiles, cap).raised
    /\ pc' = "fatal_discovery"
    /\ UNCHANGED << mainVars, dataVars, runVars, fileVars, adapterVars >>

\* raise RuntimeError(f"No trials found under {trials_root}")
NoTrialsFatal ==
    /\ pc = "discover"
    /\ LET d == discover_trials(metaFiles, cap)
       IN ~d.raised /\ d.trials = << >>
    /\ pc' = "fatal_no_trials"
    /\ UNCHANGED << mainVars, dataVars, runVars, fileVars, adapterVars >>

\* for name in sorted(selected_models): runner = runners[name] (KeyError when the
\* key has no runner), then run_trials starts
NextModel ==
    /\ pc = "run"
    /\ mIdx <= Len(order)
    /\ tIdx = 0
    /\ IF order[mIdx] \in DOMAIN runners
       THEN tIdx' = 1 /\ pc' = pc
       ELSE tIdx' = tIdx /\ pc' = "fatal_key"
    /\ UNCHANGED << mainVars, dataVars, results, fed, runs, calls, fileVars, adapterVars >>

\* one pass of the loop of run_trials: the runner is invoked on the trial and the
\* result is appended
RunTrial(Outs) ==
    /\ pc = "run"
    /\ mIdx <= Len(order)
    /\ tIdx >= 1
    /\ tIdx <= Len(trials)
    /\ \E o \in Outs :
         LET name == order[mIdx]
             self == runners[name]
             trial == trials[tIdx]
             called == RunnerCall(self, trial, o.first, o.second)
             res == TrialStep(trial, called)
         IN /\ Answers(o.first, FirstRequest(self, trial))
            /\ Answers(o.second, OpenAIRequest(self, trial, FALSE))
            /\ results' = Append(results, res)
            /\ fed' = Append(fed, [self |-> self, first |-> o.first, second |-> o.second])
            /\ calls' = calls + Len(called.requests)
            /\ runners' = [runners EXCEPT ![name] = SelfAfterCall(self, o.first)]
            /\ tIdx' = NextTrial(tIdx, res, Len(trials))
    /\ UNCHANGED << pc, cfg, argModels, order, mIdx, dataVars, runs, fileVars, adapterVars >>

\* run_trials returns the ModelRun and main appends it to runs
FinishModel ==
    /\ pc = "run"
    /\ mIdx <= Len(order)
    /\ tIdx > Len(trials)
    /\ runs' = Append(runs, ModelRun(order[mIdx], runners[order[mIdx]], results))
    /\ results' = << >>
    /\ fed' = << >>
    /\ tIdx' = 0
    /\ mIdx' = mIdx + 1
    /\ UNCHANGED << pc, cfg, argModels, runners, order, dataVars, calls, fileVars,
                    adapterVars >>

\* append_report(report_path, runs, ...) at the end of main
WriteReport ==
    /\ pc = "run"
    /\ mIdx > Len(order)
    /\ file' = Some(append_report(file, runs, TrialsRoot, PromptNote))
    /\ prev' = file
    /\ rows' = ReportRows(runs)
    /\ nAppends' = nAppends + 1
    /\ pc' = "done"
    /\ UNCHANGED << mainVars, dataVars, runVars, file0, adapterVars >>

OldReport == << "# Notes", NL, NL, "earlier", SP, "results", NL >>

InitMain ==
    /\ pc = "build"
    /\ cfg \in Configs
    /\ argModels \in SUBSET ArgKeys
    /\ runners = << >> /\ order = << >> /\ mIdx = 0
    /\ metaFiles \in FileSystems(MainFiles, MainMetaKinds)
    /\ cap \in { None, Some(1) }
    /\ trials = << >>
    /\ IdleRun
    /\ file0 \in { None, Some(OldReport) }
    /\ file = file0 /\ prev = None /\ nAppends = 0 /\ rows = << >>
    /\ IdleAdapter

NextMain ==
    \/ BuildOk \/ BuildFatal \/ SelectOk \/ SelectFatal
    \/ DiscoverOk \/ DiscoverFatal \/ NoTrialsFatal
    \/ NextModel \/ RunTrial(MainOutcomes) \/ FinishModel \/ WriteReport

SpecMain == InitMain /\ [][NextMain]_vars

----------------------------------------------------------------------------
(* run_trials for one model, over every kind of reply, and the report of it *)

RunEntries == { EntryOpenAI, EntryOpenAIPlain, EntryGemini }

InitRun ==
    /\ pc = "run"
    /\ \E e \in RunEntries :
         /\ cfg = [k \in {"gpt"} |-> e]
         /\ runners = build_runners(cfg).runners
    /\ argModels = {}
    /\ order = SortedKeys(Selected(argModels, cfg))
    /\ mIdx = 1
    /\ metaFiles \in FileSystems(MainFiles, { MetaOkLowerB })
    /\ cap = None
    /\ trials = discover_trials(metaFiles, cap).trials
    /\ trials # << >>
    /\ IdleRun
    /\ IdleFile
    /\ IdleAdapter

NextRun == NextModel \/ RunTrial(RunOutcomes) \/ FinishModel \/ WriteReport

SpecRun == InitRun /\ [][NextRun]_vars

----------------------------------------------------------------------------
(* discover_trials alone, over every file system and cap                   *)

DiscoverReturns ==
    /\ pc = "call_discover"
    /\ ~discover_trials(metaFiles, cap).raised
    /\ trials' = discover_trials(metaFiles, cap).trials
    /\ pc' = "returned"
    /\ UNCHANGED << mainVars, metaFiles, cap, runVars, fileVars, adapterVars >>

DiscoverRaises ==
    /\ pc = "call_discover"
    /\ discover_trials(metaFiles, cap).raised
    /\ pc' = "raised"
    /\ UNCHANGED << mainVars, dataVars, runVars, fileVars, adapterVars >>

InitDiscover ==
    /\ pc = "call_discover"
    /\ metaFiles \in FileSystems(MaxFiles, MetaKinds)
    /\ cap \in Caps
    /\ trials = << >>
    /\ IdleMain /\ IdleRun /\ IdleFile /\ IdleAdapter

NextDiscover == DiscoverReturns \/ DiscoverRaises

SpecDiscover == InitDiscover /\ [][NextDiscover]_vars

----------------------------------------------------------------------------
(* append_report called again and again on one path                        *)

SampleRunner == RunnerOf(EntryOpenAI)
SampleTrials == { TrialAssets(1, MetaOkLowerB), TrialAssets(2, MetaOkCrShape) }
SampleOutcomes ==
    { Outcome(Text(GoodReply), Text(GoodReply)),
      Outcome(Text(ObjectReply(Some(<< "D" >>), NoConf, Some(<< "a", BAR, "b" >>))),
              Text(GoodReply)),
      Outcome(Raise("timeout"), Raise("timeout")),
      Outcome(Raise("no_message"), Raise("no_message")) }
SampleResults ==
    { TrialStep(t, RunnerCall(SampleRunner, t, o.first, o.second)) :
        t \in SampleTrials, o \in SampleOutcomes }
SampleRuns ==
    { << >>, << ModelRun("gpt", SampleRunner, << >>) >> }
        \cup { << ModelRun("gpt", SampleRunner, << r >>) >> : r \in SampleResults }

\* report artifacts that exist before the program first runs
OldReports ==
    { << "foo" >>, << "foo", NL >>, << "foo", NL, NL >>, << NL, "foo", NL >>,
      << "foo", SP, NL >>, << "a", CR, NL, "b", NL >>, << >>, << SP, NL >> }

AppendReport ==
    /\ pc = "report"
    /\ nAppends < MaxAppends
    /\ \E rs \in SampleRuns :
         /\ runs' = rs
         /\ file' = Some(append_report(file, rs, TrialsRoot, PromptNote))
         /\ rows' = ReportRows(rs)
    /\ prev' = file
    /\ nAppends' = nAppends + 1
    /\ UNCHANGED << pc, mainVars, dataVars, tIdx, results, fed, calls, file0, adapterVars >>

InitReport ==
    /\ pc = "report"
    /\ file0 \in { None } \cup { Some(f) : f \in OldReports }
    /\ file = file0 /\ prev = None /\ nAppends = 0 /\ rows = << >>
    /\ IdleMain /\ IdleData /\ IdleRun /\ IdleAdapter

NextReport == AppendReport

SpecReport == InitReport /\ [][NextReport]_vars

----------------------------------------------------------------------------
(* one runner object invoked on trial after trial                          *)

AdapterTrials == { TrialAssets(1, MetaOkLowerB), TrialAssets(2, MetaOkA) }
Adapters ==
    { Runner(k, << "model" >>, t, s, j) :
        k \in {"openai"}, t \in {"0.2", "0.7"}, s \in {30, DefaultTimeout},
        j \in BOOLEAN }
      \cup { Runner("gemini", << "model" >>, t, s, FALSE) :
               t \in {"0.2"}, s \in {30, DefaultTimeout} }

\* runner(trial): the provider answers `first`, and `second` to a retry
Invoke ==
    /\ pc = "adapter"
    /\ nInv < MaxInvocations
    /\ \E trial \in AdapterTrials, first \in AdapterResponses, second \in AdapterResponses :
         LET called == RunnerCall(adapter, trial, first, second)
         IN /\ Answers(first, FirstRequest(adapter, trial))
            /\ Answers(second, OpenAIRequest(adapter, trial, FALSE))
            /\ Len(called.requests) = 1 => second = first
            /\ lastInv' = [self |-> adapter, trial |-> trial, first |-> first,
                           second |-> second, requests |-> called.requests,
                           raised |-> called.raised, err |-> called.err,
                           afterFallback |-> nInv >= 1 /\
                               (lastInv.afterFallback \/ Len(lastInv.requests) = 2)]
            /\ adapter' = SelfAfterCall(adapter, first)
            /\ calls' = calls + Len(called.requests)
    /\ nInv' = nInv + 1
    /\ UNCHANGED << pc, mainVars, dataVars, tIdx, results, fed, runs, fileVars, adapter0 >>

InitAdapter ==
    /\ pc = "adapter"
    /\ adapter0 \in Adapters
    /\ adapter = adapter0
    /\ lastInv = << >>
    /\ nInv = 0
    /\ IdleMain /\ IdleData /\ IdleRun /\ IdleFile

NextAdapter == Invoke

SpecAdapter == InitAdapter /\ [][NextAdapter]_vars

----------------------------------------------------------------------------
(* Properties                                                              *)

\* a result carries the label, condition and gold of a trial
CopiedFrom(res, trial) ==
    /\ res.trial_label = trial.label
    /\ res.condition = trial.condition
    /\ res.gold = trial.correct_answer

\* the response that decides an invocation: the retry's when the chat-completions
\* adapter, in structured mode, saw its first call fail, else the first
FinalResponse(f) ==
    IF f.self.kind = "openai" /\ f.self.json_mode /\ ~IsNone(f.first.exc)
    THEN f.second ELSE f.first

\* the provider call, or the parsing of the reply into its fields, raised
CallOrParseRaised(f) ==
    LET r == FinalResponse(f)
    IN \/ ~IsNone(r.exc)
       \/ r.reply.kind \in {"empty", "nonjson", "array"}
       \/ r.reply.confidence.kind = "huge"

\* C1: a run produces exactly one Trial Result per (model, trial) pair: the models
\* are run in sorted key order, each Model Run holds one result per discovered
\* trial, in discovery order, with label, condition and gold copied from the
\* trial; a failed trial is recorded as a failed result and the loop goes on (no
\* fatal stop once the runs have started).
C1_OneResultPerModelAndTrial ==
    pc \in {"run", "done", "fatal_key"} =>
        /\ pc # "fatal_key"
        /\ trials = discover_trials(metaFiles, cap).trials
        /\ { order[i] : i \in 1..Len(order) } = Selected(argModels, cfg)
        /\ \A i \in 1..Len(order), k \in 1..Len(order) :
               i < k => KeyRank(order[i]) < KeyRank(order[k])
        /\ Len(runs) = IF pc = "done" THEN Len(order) ELSE mIdx - 1
        /\ \A i \in 1..Len(runs) :
               /\ runs[i].name = order[i]
               /\ Len(runs[i].results) = Len(trials)
               /\ \A j \in 1..Len(trials) : CopiedFrom(runs[i].results[j], trials[j])
        /\ Len(results) = IF tIdx = 0 THEN 0 ELSE tIdx - 1
        /\ Len(results) <= Len(trials)
        /\ \A j \in 1..Len(results) :
               /\ CopiedFrom(results[j], trials[j])
               /\ CallOrParseRaised(fed[j]) =>
                      ~results[j].success /\ ~IsNone(results[j].error)
        /\ pc = "run" /\ mIdx <= Len(order) =>
               order[mIdx] \in DOMAIN runners /\ tIdx \in 0..(Len(trials) + 1)

\* two models, two trials, the first trial of the first model failed, and the
\* last trial of the last model still got its result
C1_Witness ==
    /\ pc = "done"
    /\ Len(order) = 2 /\ Len(trials) = 2 /\ Len(runs) = 2
    /\ ~IsNone(runs[1].results[1].error)
    /\ runs[2].results[2].success

StatusOf(i, j) == rows[i][j].status
ShownNote(text) == EscapeBars(CollapseWS(text))

\* C3 as stated: each row has one status of OK, WRONG, ERROR; OK iff correct,
\* WRONG iff parsed without failure but not correct, ERROR iff the result has an
\* error; an ERROR row shows the error text, any other row the reasoning.
C3_StatusIffError ==
    pc = "done" =>
        \A i \in 1..Len(runs) : \A j \in 1..Len(runs[i].results) :
            LET r == runs[i].results[j] IN
            /\ StatusOf(i, j) \in { << "OK" >>, << "WRONG" >>, << "ERROR" >> }
            /\ StatusOf(i, j) = << "OK" >> <=> is_correct(r)
            /\ StatusOf(i, j) = << "WRONG" >> <=> IsNone(r.error) /\ ~is_correct(r)
            /\ StatusOf(i, j) = << "ERROR" >> <=> ~IsNone(r.error)
            /\ StatusOf(i, j) = << "ERROR" >> => rows[i][j].note = ShownNote(Val(r.error))
            /\ StatusOf(i, j) # << "ERROR" >> => rows[i][j].note = ShownNote(r.reasoning)

\* C3 amended: each row has one status of OK, WRONG, ERROR; OK iff correct, WRONG
\* iff a valid letter was obtained (success) and it is not the gold one, ERROR iff
\* success is false, which is every failed call or parse and also every parsed
\* reply without a valid answer; a row whose result has an error shows the error
\* text, any other row (an ERROR row without an error too) shows the reasoning,
\* both with whitespace collapsed and bars escaped.
C3_StatusIffNoSuccess ==
    pc = "done" =>
        /\ Len(rows) = Len(runs)
        /\ \A i \in 1..Len(runs) :
            /\ Len(rows[i]) = Len(runs[i].results)
            /\ \A j \in 1..Len(runs[i].results) :
                LET r == runs[i].results[j] IN
                /\ StatusOf(i, j) \in { << "OK" >>, << "WRONG" >>, << "ERROR" >> }
                /\ StatusOf(i, j) = << "OK" >> <=> is_correct(r)
                /\ StatusOf(i, j) = << "WRONG" >> <=> r.success /\ ~is_correct(r)
                /\ StatusOf(i, j) = << "ERROR" >> <=> ~r.success
                /\ ~IsNone(r.error) => StatusOf(i, j) = << "ERROR" >>
                /\ ~IsNone(r.error) => rows[i][j].note = ShownNote(Val(r.error))
                /\ IsNone(r.error) => rows[i][j].note = ShownNote(r.reasoning)

\* a report with an ERROR row that has no error and shows the reasoning, next to
\* an ERROR row that shows its error text
C3_Witness ==
    /\ pc = "done"
    /\ Len(runs) = 1 /\ Len(runs[1].results) = 2
    /\ StatusOf(1, 1) = << "ERROR" >>
    /\ IsNone(runs[1].results[1].error)
    /\ rows[1][1].note # << >>
    /\ StatusOf(1, 2) = << "ERROR" >>
    /\ Truthy(runs[1].results[2].error)
    /\ rows[1][2].note = ShownNote(Val(runs[1].results[2].error))

\* C4: starting from an absent report, the content after the k-th append_report
\* is a prefix of the content after the (k+1)-th.
C4_AppendOnlyFromAbsent ==
    IsNone(file0) /\ nAppends >= 2 => IsPrefix(Val(prev), Val(file))

\* C5: for any report that exists before append_report runs, the prior content
\* is a prefix of the new content.
C5_PriorContentIsPrefix ==
    nAppends >= 1 /\ ~IsNone(prev) => IsPrefix(Val(prev), Val(file))

FlaggedCount(targets) == Cardinality({ i \in 1..Len(targets) : targets[i].is_correct })

\* C6: every Trial Asset discover_trials returns has correct_answer in {A, B, C}
\* and comes from metadata with exactly one target flagged correct (any other
\* metadata makes discovery fail).
C6_ExactlyOneCorrectLetter ==
    pc = "returned" =>
        \A i \in 1..Len(trials) :
            /\ trials[i].correct_answer \in Letters
            /\ FlaggedCount(metaFiles[trials[i].images].targets) = 1

\* C7: on a dataset of T valid trials, discover_trials with cap N >= 0 returns the
\* first min(N, T) trials of the sorted walk, in order.
C7_CapReturnsFirstN ==
    LET walk == SortedPaths(DOMAIN metaFiles)
        n == Min(Val(cap), Len(walk))
    IN pc = "returned" /\ ~IsNone(cap)
           /\ (\A p \in DOMAIN metaFiles : ~MetaRaises(metaFiles[p]))
       => trials = [i \in 1..n |-> TrialAssets(walk[i], metaFiles[walk[i]])]

\* C8: when main stops on a fatal error, no provider call has been made, no trial
\* result exists and the report artifact is as it was.
C8_FatalBeforeCallsAndReport ==
    pc \in FatalPcs =>
        /\ calls = 0
        /\ results = << >>
        /\ runs = << >>
        /\ nAppends = 0
        /\ file = file0

\* main stopped on a discovery failure with an earlier report in place
C8_Witness ==
    /\ pc = "fatal_discovery"
    /\ ~IsNone(file0)
    /\ Selected(argModels, cfg) # {}

\* C9: the chat-completions adapter makes at most two calls per trial; a second
\* call only when structured mode was requested and the provider rejected that
\* mode, sent without structured mode, its failure propagating; any other failure
\* of the first call, and any failure without structured mode, propagates with no
\* retry.
C9_RetryOnlyOnRejectedMode ==
    nInv >= 1 /\ lastInv.self.kind = "openai" =>
        LET n == Len(lastInv.requests) IN
        /\ n <= 2
        /\ n = 2 => /\ lastInv.self.json_mode
                    /\ lastInv.first.exc = Some("reject_format")
                    /\ ~lastInv.requests[2].response_format
                    /\ ~IsNone(lastInv.second.exc) =>
                           /\ lastInv.raised
                           /\ lastInv.err = ExceptionText(Val(lastInv.second.exc))
        /\ ~IsNone(lastInv.first.exc)
             /\ (lastInv.first.exc # Some("reject_format") \/ ~lastInv.self.json_mode)
           => /\ n = 1
              /\ lastInv.raised
              /\ lastInv.err = ExceptionText(Val(lastInv.first.exc))

\* C10: whatever the earlier invocations did, the runner object is as it was
\* constructed, and the first request of an invocation is the one the freshly
\* constructed runner builds for that trial.
C10_InvocationsStateless ==
    /\ adapter = adapter0
    /\ nInv >= 1 =>
           /\ lastInv.self = adapter0
           /\ lastInv.requests[1] = FirstRequest(adapter0, lastInv.trial)

\* an invocation after a fallback retry still asks for structured mode first
C10_Witness ==
    /\ nInv >= 2
    /\ adapter0.kind = "openai"
    /\ lastInv.afterFallback
    /\ lastInv.requests[1].response_format

====
